---- MODULE Spec2Model ----
(***************************************************************************)
(* A model of src/sdk/zmq-runtime-caller.js:                               *)
(*   - ZMQRuntimeCaller (lines 21-81): one socket, one timer and one       *)
(*     message per call(); the instance keeps _action and _timeout.        *)
(*   - ActionSchema (lines 117-561): fromMapping and the lookups over the  *)
(*     constructed schema.                                                 *)
(* JavaScript runs each handler to completion on one thread, so call(),    *)
(* the timer callback and the 'message' handler are one action each.       *)
(***************************************************************************)
EXTENDS Integers, Sequences, FiniteSets, TLC

VARIABLES
  caller,          \* per ZMQRuntimeCaller instance: the fields _action, _timeout
  calls,           \* the calls made so far, in order; index = id of the call.
                   \* overlapping, kept and threw note what call() met and did,
                   \* snapshot what getTransport()._getAsObject() gave at line 57
  sockets,         \* per call: the socket created at line 64
  timers,          \* per call: the timer created at line 69
  peer,            \* per call: what the remote side has done
  inflight,        \* per call: reply frames on the wire to the call's endpoint
  responses,       \* invocations of Action._processRuntimeResponse, in order
  uncaught,        \* errors thrown out of a timer or event callback, in order
  alive,           \* the process has not been ended by an uncaught error
  uncaughtHandler, \* the embedding process installed an 'uncaughtException' listener
  transport,       \* per action: the transport state getTransport() returns
  mapping,         \* the mapping handed to ActionSchema.fromMapping
  schema,          \* the ActionSchema fromMapping returned
  result           \* the outcome of the last operation on the schema

callerVars == <<caller, calls, sockets, timers, peer, inflight, responses,
                uncaught, alive, uncaughtHandler, transport>>
schemaVars == <<mapping, schema, result>>
vars == <<caller, calls, sockets, timers, peer, inflight, responses,
          uncaught, alive, uncaughtHandler, transport, mapping, schema, result>>

----------------------------------------------------------------------------
(* Bounds *)

MaxCalls == 2

----------------------------------------------------------------------------
(* JavaScript values *)

\* Strings stand for JavaScript strings and, where a string is expected, for the
\* values undefined, null and false; objects are records tagged with t.
\* A parameter that was not passed, a property that was never assigned.
Undefined == "undefined"
Null      == "null"
JSFalse   == "false"

UndefinedObj == [t |-> "undefined"]
NullObj      == [t |-> "null"]

\* if (v), !v, v && ... : the values that count as false.
Truthy(v) == v \notin {Undefined, Null, JSFalse, ""}

\* An array, and the boolean false where the code puts one in an array's place.
Arr(items) == [t |-> "array", items |-> items]
FalseObj   == [t |-> "boolean", items |-> <<>>]

\* A call that returns v, a call that throws.
Return(v)  == [kind |-> "return", value |-> v]
Throw(msg) == [kind |-> "throw", error |-> msg]

\* Timer handles are the ids of the calls that created them; 0: no handle.
NoTimer == 0

----------------------------------------------------------------------------
(* ZMQRuntimeCaller: the values call() is used with *)

Callers   == {"k1", "k2"}
Actions   == {"act1", "act2"}
Addresses == {"ipc://r1", "ipc://r2"}
Payloads  == {"P1", "P2"}

\* What each action calls: service, version, targetAction, and the arguments after
\* address. Undefined stands for an omitted optional argument.
CallArgs ==
  [a \in Actions |->
     IF a = "act1"
     THEN [service |-> "users", version |-> "1.0", targetAction |-> "read",
           params |-> Undefined, files |-> Undefined, timeout |-> Undefined]
     ELSE [service |-> "posts", version |-> "2.1", targetAction |-> "list",
           params |-> "params#1", files |-> "files#1", timeout |-> "50"]]

\* The actions whose transport changes while they wait.
Transporting == {"act1"}

DefaultTimeout == "1000"
EmptyList      == "[]"
ProtocolByte   == "\\x01"

\* A default parameter value applies when the argument is undefined.
DefaultArg(v, d) == IF v = Undefined THEN d ELSE v

----------------------------------------------------------------------------
(* msgpack: pack wraps a value into a frame, unpack takes it out again and *)
(* throws on a frame that is no msgpack encoding.                          *)

Pack(v) == [enc |-> "msgpack", body |-> v]

CanUnpack(frame) == frame.enc = "msgpack"

Unpack(frame) == frame.body

\* What a peer may put on the wire: an encoded payload or bytes that do not decode.
ReplyFrames == {Pack(p) : p \in Payloads} \cup {[enc |-> "malformed", body |-> "P1"]}

----------------------------------------------------------------------------
(* ZMQRuntimeCaller: state *)

CallIds == 1..Len(calls)

\* The addresses some socket is bound at. Nothing in the file closes or unbinds a
\* socket, so an address stays bound once bindSync has taken it.
BoundAddresses == {sockets[c].address : c \in {d \in CallIds : sockets[d].bound}}

\* The command with the callee listed as service, action, version.
CommandCalleeReordered(action, args) ==
  [meta    |-> [service |-> "service"],
   command |-> [name      |-> "runtime-call",
                arguments |-> [action    |-> action,
                               callee    |-> <<args.service, args.targetAction,
                                               args.version>>,
                               transport |-> transport[action],
                               params    |-> DefaultArg(args.params, EmptyList),
                               files     |-> DefaultArg(args.files, EmptyList)]]]

\* Lines 44-62: the command call() builds.
Command(action, args) ==
  [meta    |-> [service |-> "service"],
   command |-> [name      |-> "runtime-call",
                arguments |-> [action    |-> action,
                               callee    |-> <<args.service, args.version,
                                               args.targetAction>>,
                               transport |-> transport[action],
                               params    |-> DefaultArg(args.params, EmptyList),
                               files     |-> DefaultArg(args.files, EmptyList)]]]

\* Line 71: the error the timer callback throws.
TimeoutError(c) ==
  [kind    |-> "Error",
   message |-> <<"Run-time call timed out for", calls[c].args.service,
                 calls[c].args.version, calls[c].args.targetAction>>,
   call    |-> c]

\* msgpack.unpack failing inside _parseReply (line 79).
DecodeError(c) ==
  [kind |-> "Error", message |-> <<"unpack failed">>, call |-> c]

\* An error thrown out of a timer or an event callback has no caller to catch it:
\* Node ends the process unless an 'uncaughtException' listener is installed.
ThrowUncaught(err) ==
  /\ uncaught' = Append(uncaught, err)
  /\ alive' = uncaughtHandler

\* An instance has a pending call: a call made on it was sent and has neither
\* been answered nor timed out.
Pending(c) ==
  /\ sockets[c].sent # <<>>
  /\ sockets[c].received = <<>>
  /\ timers[c].state # "fired"

HasPending(k) == \E c \in CallIds : calls[c].instance = k /\ Pending(c)

----------------------------------------------------------------------------
(* ZMQRuntimeCaller: operations *)

\* Line 78: clearTimeout(handle). Clearing no handle, or a timer that has fired
\* or was cleared, does nothing.
ClearTimeout(ts, handle) ==
  IF handle # NoTimer /\ ts[handle].state = "armed"
  THEN [ts EXCEPT ![handle].state = "cleared"]
  ELSE ts

\* Lines 38-75: call(action, service, version, targetAction, address, params,
\* files, timeout) on instance k. bindSync throws when the address is in use; the
\* exception leaves call() after line 42 and line 66 have run.
Call(k, action, args, address) ==
  LET c      == Len(calls) + 1
      bindOk == address \notin BoundAddresses
      after  == [_action  |-> action,
                 _timeout |-> IF bindOk THEN c ELSE caller[k]._timeout]
  IN
  /\ alive
  /\ Len(calls) < MaxCalls
  /\ calls' = Append(calls, [instance    |-> k,
                             action      |-> action,
                             args        |-> args,
                             address     |-> address,
                             snapshot    |-> transport[action],
                             overlapping |-> HasPending(k),
                             kept        |-> after = caller[k],
                             threw       |-> ~bindOk])
  /\ sockets' = Append(sockets, [address  |-> address,
                                 handler  |-> k,
                                 bound    |-> bindOk,
                                 unref    |-> FALSE,
                                 received |-> <<>>,
                                 sent     |-> IF bindOk
                                              THEN <<ProtocolByte,
                                                     Pack(Command(action, args))>>
                                              ELSE <<>>])
  /\ timers' = Append(timers, [state |-> IF bindOk THEN "armed" ELSE "none",
                               delay |-> DefaultArg(args.timeout, DefaultTimeout)])
  /\ caller' = [caller EXCEPT ![k] = after]
  /\ peer' = Append(peer, "waiting")
  /\ inflight' = Append(inflight, <<>>)
  /\ UNCHANGED <<responses, uncaught, alive, uncaughtHandler, transport>>
  /\ UNCHANGED schemaVars

\* A timer callback that sends the message once more before it gives up.
TimerExpireResends(c) ==
  /\ alive
  /\ timers[c].state = "armed"
  /\ timers' = [timers EXCEPT ![c].state = "fired"]
  /\ sockets' = [sockets EXCEPT ![c].unref = TRUE, ![c].sent = @ \o @]
  /\ ThrowUncaught(TimeoutError(c))
  /\ UNCHANGED <<caller, calls, peer, inflight, responses, uncaughtHandler, transport>>
  /\ UNCHANGED schemaVars

\* Lines 69-72: the timer of call c expires. The callback holds the socket and
\* the callee of its own call.
TimerExpire(c) ==
  /\ alive
  /\ timers[c].state = "armed"
  /\ timers' = [timers EXCEPT ![c].state = "fired"]
  /\ sockets' = [sockets EXCEPT ![c].unref = TRUE]
  /\ ThrowUncaught(TimeoutError(c))
  /\ UNCHANGED <<caller, calls, peer, inflight, responses, uncaughtHandler, transport>>
  /\ UNCHANGED schemaVars

\* The remote service answers the message of call c with one frame.
PeerReply(c, frame) ==
  /\ sockets[c].sent # <<>>
  /\ peer[c] = "waiting"
  /\ peer' = [peer EXCEPT ![c] = "replied"]
  /\ inflight' = [inflight EXCEPT ![c] = Append(@, frame)]
  /\ UNCHANGED <<caller, calls, sockets, timers, responses, uncaught, alive,
                 uncaughtHandler, transport>>
  /\ UNCHANGED schemaVars

\* A 'message' listener that reads _action and _timeout from one shared place
\* (the first instance) whatever instance made the call.
ParseReplyShared(c) ==
  LET k     == "k1"
      frame == Head(inflight[c])
  IN
  /\ alive
  /\ sockets[c].bound
  /\ inflight[c] # <<>>
  /\ inflight' = [inflight EXCEPT ![c] = Tail(@)]
  /\ sockets' = [sockets EXCEPT ![c].received = Append(@, frame)]
  /\ timers' = ClearTimeout(timers, caller[k]._timeout)
  /\ IF CanUnpack(frame)
     THEN /\ responses' = Append(responses,
                                 [action |-> caller[k]._action,
                                  value  |-> Unpack(frame),
                                  socket |-> c,
                                  timer  |-> timers[c].state])
          /\ UNCHANGED <<uncaught, alive>>
     ELSE /\ ThrowUncaught(DecodeError(c))
          /\ UNCHANGED responses
  /\ UNCHANGED <<caller, calls, peer, uncaughtHandler, transport>>
  /\ UNCHANGED schemaVars

\* Lines 66, 77-80: a frame arrives on the socket of call c and its 'message'
\* listener runs _parseReply with `this` the instance the listener was bound to.
ParseReply(c) ==
  LET k     == sockets[c].handler
      frame == Head(inflight[c])
  IN
  /\ alive
  /\ sockets[c].bound
  /\ inflight[c] # <<>>
  /\ inflight' = [inflight EXCEPT ![c] = Tail(@)]
  /\ sockets' = [sockets EXCEPT ![c].received = Append(@, frame)]
  /\ timers' = ClearTimeout(timers, caller[k]._timeout)
  /\ IF CanUnpack(frame)
     THEN /\ responses' = Append(responses,
                                 [action |-> caller[k]._action,
                                  value  |-> Unpack(frame),
                                  socket |-> c,
                                  timer  |-> timers[c].state])
          /\ UNCHANGED <<uncaught, alive>>
     ELSE /\ ThrowUncaught(DecodeError(c))
          /\ UNCHANGED responses
  /\ UNCHANGED <<caller, calls, peer, uncaughtHandler, transport>>
  /\ UNCHANGED schemaVars

\* The calling action's transport changes while its request is handled.
TransportChange(action) ==
  /\ alive
  /\ transport[action] = "transport#0"
  /\ transport' = [transport EXCEPT ![action] = "transport#1"]
  /\ UNCHANGED <<caller, calls, sockets, timers, peer, inflight, responses,
                 uncaught, alive, uncaughtHandler>>
  /\ UNCHANGED schemaVars

----------------------------------------------------------------------------
(* Strings that are split are sequences of characters. *)

RECURSIVE SplitFrom(_, _, _)
SplitFrom(s, sep, cur) ==
  IF s = <<>> THEN <<cur>>
  ELSE IF Len(s) >= Len(sep) /\ SubSeq(s, 1, Len(sep)) = sep
       THEN <<cur>> \o SplitFrom(SubSeq(s, Len(sep) + 1, Len(s)), sep, <<>>)
       ELSE SplitFrom(Tail(s), sep, Append(cur, Head(s)))

\* String.prototype.split(separator), line 273.
Split(s, sep) ==
  IF sep = <<>> THEN [i \in 1..Len(s) |-> <<s[i]>>] ELSE SplitFrom(s, sep, <<>>)

----------------------------------------------------------------------------
(* Data handed to resolveEntity: a nested mapping is the set of the key    *)
(* paths in it, the empty path included; a value with no keys of its own   *)
(* (a scalar, an empty mapping) is {<<>>}.                                  *)

MaxDepth == 2

Keys == {<<"a">>, <<"b">>}

Leaf == {<<>>}

Node(S, sub) == Leaf \cup UNION {{<<k>> \o p : p \in sub[k]} : k \in S}

RECURSIVE Trees(_)
Trees(d) ==
  IF d = 0 THEN {Leaf}
  ELSE UNION {{Node(S, sub) : sub \in [S -> Trees(d - 1)]} : S \in SUBSET Keys}

\* typeof data[key] !== typeof undefined, line 276.
HasKey(data, key) == \E p \in data : p # <<>> /\ Head(p) = key

\* data[key], line 280.
GetKey(data, key) == {Tail(p) : p \in {q \in data : q # <<>> /\ Head(q) = key}}

----------------------------------------------------------------------------
(* ActionSchema: collaborators whose files are not part of src/ *)

\* Schema.readProperty(mapping, name, defaultValue): the value at name, or the
\* default when the mapping has no such key.
readProperty(m, key, default) == IF key \in DOMAIN m THEN m[key] ELSE default

\* new ActionEntity(entityPath, pathDelimiter, primaryKey, collection, definition)
ActionEntity(entityPath, pathDelimiter, primaryKey, collection, definition) ==
  [t |-> "ActionEntity", entityPath |-> entityPath, pathDelimiter |-> pathDelimiter,
   primaryKey |-> primaryKey, collection |-> collection, definition |-> definition]

\* ParamSchema.fromMapping(name, mapping): the name is the key (line 192);
\* getParams reads it back as _name (line 469).
ParamSchemaFromMapping(name, m) == [t |-> "ParamSchema", _name |-> name, mapping |-> m]

\* FileSchema.fromMapping(name, mapping), line 197.
FileSchemaFromMapping(name, m) == [t |-> "FileSchema", _name |-> name, mapping |-> m]

\* TransportFallbackSchema, HttpActionSchema and ReturnValueSchema are built from
\* their own part of the mapping and only handed on.
SubSchema(kind, m) == [t |-> kind, mapping |-> m]

----------------------------------------------------------------------------
(* ActionSchema: construction *)

\* An object's keys in order: a mapping keyed by name is the sequence of its
\* <<key, value>> pairs. Object.keys, lines 191 and 196.
ObjectKeys(obj) == [i \in 1..Len(obj) |-> obj[i][1]]

\* Lines 135-166: the constructor assigns these fields and no others. Every
\* argument fromMapping passes is defined, so no default parameter applies.
NewActionSchema(name, timeout, actionEntity, transportFallbackSchema, httpActionSchema, deprecated, params, files, relations, tags, callList, deferredCalls, remoteCalls, returnValueSchema) ==
  [_name              |-> name,
   _timeout           |-> timeout,
   _entity            |-> actionEntity,
   _transportFallback |-> transportFallbackSchema,
   _httpSchema        |-> httpActionSchema,
   _deprecated        |-> deprecated,
   _params            |-> params,
   _files             |-> files,
   _relations         |-> relations,
   _tags              |-> tags,
   _calls             |-> callList,
   _deferredCalls     |-> deferredCalls,
   _remoteCalls       |-> remoteCalls,
   _returnValue       |-> returnValueSchema]

\* Lines 174-221.
fromMapping(name, m) ==
  LET transportFallbackSchema == SubSchema("TransportFallbackSchema",
                                           readProperty(m, "fallback", Undefined))
      actionEntity == ActionEntity(readProperty(m, "entity_path", <<>>),
                                   readProperty(m, "path_delimiter", <<"/">>),
                                   readProperty(m, "primary_key", "id"),
                                   readProperty(m, "collection", FALSE),
                                   readProperty(m, "entity", "{}"))
      httpActionSchema  == SubSchema("HttpActionSchema", readProperty(m, "http", Undefined))
      returnValueSchema == SubSchema("ReturnValueSchema",
                                     readProperty(m, "return", Undefined))
      paramsObject == readProperty(m, "params", <<>>)
      paramsArray  == [i \in 1..Len(paramsObject) |->
                         ParamSchemaFromMapping(ObjectKeys(paramsObject)[i],
                                                paramsObject[i][2])]
      filesMappingArray == readProperty(m, "files", <<>>)
      filesArray   == [i \in 1..Len(filesMappingArray) |->
                         FileSchemaFromMapping(ObjectKeys(filesMappingArray)[i],
                                               filesMappingArray[i][2])]
  IN NewActionSchema(name,
                     readProperty(m, "timeout", DefaultTimeout),
                     actionEntity,
                     transportFallbackSchema,
                     httpActionSchema,
                     readProperty(m, "is_deprecated", FALSE),
                     paramsArray,
                     filesArray,
                     readProperty(m, "relations", <<>>),
                     readProperty(m, "tags", <<>>),
                     readProperty(m, "calls", FalseObj),
                     readProperty(m, "deferred_calls", FalseObj),
                     readProperty(m, "remote_calls", FalseObj),
                     returnValueSchema)

----------------------------------------------------------------------------
(* ActionSchema: lookups *)

RECURSIVE WalkKeys(_, _, _)
\* Lines 275-283: keys.forEach descends or throws; then data is returned.
WalkKeys(keys, data, name) ==
  IF keys = <<>> THEN Return(data)
  ELSE IF ~HasKey(data, Head(keys))
       THEN Throw(<<"Cannot resolve entity for action:", name>>)
       ELSE WalkKeys(Tail(keys), GetKey(data, Head(keys)), name)

\* Lines 268-284. The method reads this._entityPath and this._pathDelimiter,
\* properties of the schema itself; a property the object does not have reads
\* as undefined, and !undefined is true.
resolveEntity(sch, data) ==
  IF "_entityPath" \notin DOMAIN sch THEN Return(data)
  ELSE IF sch._entityPath = <<>> THEN Return(data)
  ELSE WalkKeys(Split(sch._entityPath,
                      IF "_pathDelimiter" \in DOMAIN sch
                      THEN sch._pathDelimiter ELSE <<>>),
                data, sch._name)

\* Lines 328-340: the callback handed to filter. It returns false on a mismatch
\* and has no other return statement: the call ends with undefined.
HasCallsCallback(call, name, version, action) ==
  IF name # call.serviceName THEN JSFalse
  ELSE IF Truthy(version) /\ version # call.serviceVersion THEN JSFalse
  ELSE IF Truthy(action) /\ action # call.actionName THEN JSFalse
  ELSE Undefined

RECURSIVE Filter(_, _)
\* Array.prototype.filter keeps the elements whose callback result is truthy;
\* returned[i] is what the callback returned for items[i].
Filter(items, returned) ==
  IF items = <<>> THEN <<>>
  ELSE (IF Truthy(Head(returned)) THEN <<Head(items)>> ELSE <<>>)
       \o Filter(Tail(items), Tail(returned))

\* Lines 327-343. false has no filter method: calling it throws a TypeError.
_hasCalls(source, name, version, action) ==
  IF source.t # "array" THEN Throw(<<"TypeError: source.filter is not a function">>)
  ELSE LET matching ==
             Filter(source.items,
                    [i \in 1..Len(source.items) |->
                       HasCallsCallback(source.items[i], name, version, action)])
       IN Return(Len(matching) > 0)

\* Lines 352-354.
hasCall(sch, name, version, action) ==
  _hasCalls(sch._calls, name, DefaultArg(version, Null), DefaultArg(action, Null))

\* Lines 379-381.
hasDeferCall(sch, name, version, action) ==
  _hasCalls(sch._deferredCalls, name, DefaultArg(version, Null), DefaultArg(action, Null))

\* Lines 409-426: the callback of hasRemoteCall, of the same shape.
HasRemoteCallCallback(call, address, name, version, action) ==
  IF address # call.publicAddress THEN JSFalse
  ELSE IF Truthy(name) /\ name # call.serviceName THEN JSFalse
  ELSE IF Truthy(version) /\ version # call.serviceVersion THEN JSFalse
  ELSE IF Truthy(action) /\ action # call.actionName THEN JSFalse
  ELSE Undefined

\* Lines 408-429.
hasRemoteCall(sch, address, name, version, action) ==
  IF sch._remoteCalls.t # "array"
  THEN Throw(<<"TypeError: this._remoteCalls.filter is not a function">>)
  ELSE LET matching ==
             Filter(sch._remoteCalls.items,
                    [i \in 1..Len(sch._remoteCalls.items) |->
                       HasRemoteCallCallback(sch._remoteCalls.items[i], address,
                                             DefaultArg(name, Null),
                                             DefaultArg(version, Null),
                                             DefaultArg(action, Null))])
       IN Return(Len(matching) > 0)

\* Lines 360-362, 387-389, 435-437: list.length > 0. false.length is undefined,
\* and undefined > 0 is false.
HasAny(list) == Return(list.t = "array" /\ Len(list.items) > 0)

hasCalls(sch) == HasAny(sch._calls)

hasDeferCalls(sch) == HasAny(sch._deferredCalls)

hasRemoteCalls(sch) == HasAny(sch._remoteCalls)

\* Lines 467-471.
getParams(sch) == [i \in 1..Len(sch._params) |-> sch._params[i]._name]

\* Array.prototype.includes.
Includes(items, v) == \E i \in 1..Len(items) : items[i] = v

\* Lines 478-480.
hasParam(sch, name) == Includes(getParams(sch), name)

\* Lines 487-497. The return inside the forEach callback leaves the callback, not
\* getParamSchema: forEach discards it, and line 496 returns null.
getParamSchema(sch, name) ==
  IF ~hasParam(sch, name)
  THEN Throw(<<"Cannot resolve schema for parameter:", name>>)
  ELSE Return(NullObj)

\* The names of the array indices, "0", "1", ...
IndexNames == <<"0", "1", "2", "3">>

\* Properties every array has besides its indices: length, and the methods of
\* Array.prototype (those this file itself calls stand for all of them).
ArrayMembers == {"length", "map", "filter", "forEach", "includes"}

\* array[name] for a string name: the element at that index, length, an inherited
\* method, or undefined.
ArrayGet(items, name) ==
  IF \E i \in 1..Len(items) : i <= Len(IndexNames) /\ IndexNames[i] = name
  THEN items[CHOOSE i \in 1..Len(items) : IndexNames[i] = name]
  ELSE IF name \in ArrayMembers THEN [t |-> "member", _name |-> name]
  ELSE UndefinedObj

\* Lines 503-505: Object.keys of an array is the names of its indices.
getFiles(sch) == [i \in 1..Len(sch._files) |-> IndexNames[i]]

\* Lines 512-514.
hasFile(sch, name) == ArrayGet(sch._files, name) # UndefinedObj

\* Lines 521-527.
getFileSchema(sch, name) ==
  IF ~hasFile(sch, name)
  THEN Throw(<<"Cannot resolve schema for file parameter:", name>>)
  ELSE Return(ArrayGet(sch._files, name))

\* Lines 534-536.
hasTag(sch, name) == Includes(sch._tags, name)

\* Lines 275-281: what the object the caller passed holds once resolveEntity is
\* done. Line 280 assigns to the parameter data; no line assigns to a property of
\* the object.
DataAfterResolve(sch, data) == data

\* The accessors that read fields of the schema itself.
Accessors ==
  {"isDeprecated", "getName", "hasRelations", "getRelations", "getCalls",
   "getDeferCalls", "getRemoteCalls", "hasReturn", "getParams", "getFiles",
   "getTags", "getHttpSchema", "getTimeout"}

\* Lines 227-229, 243-245, 306-316, 368-370, 395-397, 443-445, 451-453, 467-471,
\* 503-505, 542-560: each returns a field, or a value computed from one.
Accessor(sch, op) ==
  CASE op = "isDeprecated"   -> sch._deprecated
    [] op = "getName"        -> sch._name
    [] op = "hasRelations"   -> Len(sch._relations) > 0
    [] op = "getRelations"   -> sch._relations
    [] op = "getCalls"       -> sch._calls
    [] op = "getDeferCalls"  -> sch._deferredCalls
    [] op = "getRemoteCalls" -> sch._remoteCalls
    [] op = "hasReturn"      -> sch._returnValue # NullObj
    [] op = "getParams"      -> getParams(sch)
    [] op = "getFiles"       -> getFiles(sch)
    [] op = "getTags"        -> sch._tags
    [] op = "getHttpSchema"  -> sch._httpSchema
    [] op = "getTimeout"     -> sch._timeout

----------------------------------------------------------------------------
(* ActionSchema: the mappings and the queries the lookups are run on *)

MaxDecl == 2

SchemaName == "read"

\* Declared calls: {serviceName, serviceVersion, actionName}.
CallRecords ==
  { [serviceName |-> "a", serviceVersion |-> "1.0", actionName |-> "x"],
    [serviceName |-> "a", serviceVersion |-> "2.0", actionName |-> "y"],
    [serviceName |-> "b", serviceVersion |-> "1.0", actionName |-> "x"] }

RemoteAddresses == {"tcp://h1", "tcp://h2"}

DeferredDeclared ==
  << [serviceName |-> "b", serviceVersion |-> "2.0", actionName |-> "y"],
     [serviceName |-> "a", serviceVersion |-> "1.0", actionName |-> "x"] >>

\* Declared remote calls carry the public address as well.
RemoteDeclared ==
  << [publicAddress |-> "tcp://h1", serviceName |-> "a", serviceVersion |-> "1.0",
      actionName |-> "x"],
     [publicAddress |-> "tcp://h2", serviceName |-> "b", serviceVersion |-> "2.0",
      actionName |-> "y"] >>

SeqsUpTo(S, n) == UNION {[1..k -> S] : k \in 0..n}

ServiceNames    == {"a", "b"}
ServiceVersions == {"1.0", "2.0"}
ActionNames     == {"x", "y"}

\* Names asked for: declared ones, undeclared ones, and names of array members.
ParamNames == {"p", "q", "r"}
FileNames  == {"f", "g", "h", "0"}
TagNames   == {"t1", "t2", "t3"}

EntityPaths == { <<>>, <<"a">>, <<"a", "/", "b">>, <<"a", ".", "b">>, <<"b", "/", "a">> }
Delimiters  == { <<"/">>, <<".">> }

ParamObjects ==
  { <<>>, << <<"p", "string">> >>, << <<"p", "string">>, <<"q", "integer">> >> }

FileObjects ==
  { <<>>, << <<"f", "text/plain">> >>, << <<"f", "text/plain">>, <<"g", "image/png">> >> }

\* A key that may be left out of the mapping.
Optional(key, values) == {<<>>} \cup {key :> v : v \in values}

EntityMappings ==
  { a @@ b : a \in Optional("entity_path", EntityPaths),
             b \in Optional("path_delimiter", Delimiters) }

ParamFileMappings ==
  { a @@ b : a \in Optional("params", ParamObjects),
             b \in Optional("files", FileObjects) }

CallMappings ==
  { a @@ b @@ c :
      a \in Optional("calls", {Arr(q) : q \in SeqsUpTo(CallRecords, MaxDecl)}),
      b \in Optional("deferred_calls", {Arr(<<>>), Arr(DeferredDeclared)}),
      c \in Optional("remote_calls", {Arr(<<>>), Arr(RemoteDeclared)}) }

TagMappings == Optional("tags", {<<"t1">>, <<"t2", "t1">>})

Mappings == EntityMappings \cup ParamFileMappings \cup CallMappings \cup TagMappings

DataValues == Trees(MaxDepth)

----------------------------------------------------------------------------
(* ActionSchema: a lookup is made and its outcome kept *)

\* No lookup has been made, or the caller has taken the last outcome.
NoResult == [op |-> "none", args |-> <<>>, outcome |-> Return(TRUE)]

\* A lookup that also notes on the schema, among its tags, that it was made.
DidNotingOnSchema(op, args, outcome) ==
  /\ result = NoResult
  /\ result' = [op |-> op, args |-> args, outcome |-> outcome]
  /\ schema' = [schema EXCEPT !._tags = Append(@, op)]
  /\ UNCHANGED mapping
  /\ UNCHANGED callerVars

\* Request handling makes one lookup at a time and takes its outcome. No method
\* in lines 227-560 assigns to a field of the schema.
Did(op, args, outcome) ==
  /\ result = NoResult
  /\ result' = [op |-> op, args |-> args, outcome |-> outcome]
  /\ UNCHANGED <<mapping, schema>>
  /\ UNCHANGED callerVars

\* args: the data passed, and the same object as it is after the call.
ResolveEntity(data) ==
  Did("resolveEntity", <<data, DataAfterResolve(schema, data)>>,
      resolveEntity(schema, data))

HasCall(name, version, action) ==
  Did("hasCall", <<name, version, action>>, hasCall(schema, name, version, action))

HasDeferCall(name, version, action) ==
  Did("hasDeferCall", <<name, version, action>>,
      hasDeferCall(schema, name, version, action))

HasRemoteCall(address, name, version, action) ==
  Did("hasRemoteCall", <<address, name, version, action>>,
      hasRemoteCall(schema, address, name, version, action))

HasCalls == Did("hasCalls", <<>>, hasCalls(schema))

HasDeferCalls == Did("hasDeferCalls", <<>>, hasDeferCalls(schema))

HasRemoteCalls == Did("hasRemoteCalls", <<>>, hasRemoteCalls(schema))

HasParam(name) == Did("hasParam", <<name>>, Return(hasParam(schema, name)))

GetParamSchema(name) == Did("getParamSchema", <<name>>, getParamSchema(schema, name))

HasFile(name) == Did("hasFile", <<name>>, Return(hasFile(schema, name)))

GetFileSchema(name) == Did("getFileSchema", <<name>>, getFileSchema(schema, name))

HasTag(name) == Did("hasTag", <<name>>, Return(hasTag(schema, name)))

Access(op) == Did(op, <<>>, Return(Accessor(schema, op)))

\* The caller has used the outcome; the schema is as it was.
TakeResult ==
  /\ result # NoResult
  /\ result' = NoResult
  /\ UNCHANGED <<mapping, schema>>
  /\ UNCHANGED callerVars

----------------------------------------------------------------------------
(* Specifications *)

InitCaller ==
  /\ caller = [k \in Callers |-> [_action |-> Undefined, _timeout |-> NoTimer]]
  /\ calls = <<>>
  /\ sockets = <<>>
  /\ timers = <<>>
  /\ peer = <<>>
  /\ inflight = <<>>
  /\ responses = <<>>
  /\ uncaught = <<>>
  /\ alive = TRUE
  /\ uncaughtHandler \in BOOLEAN
  /\ transport = [a \in Actions |-> "transport#0"]

InitSchema(ms) ==
  /\ mapping \in ms
  /\ schema = fromMapping(SchemaName, mapping)
  /\ result = NoResult

NextCaller ==
  \/ \E k \in Callers, action \in Actions, address \in Addresses :
       Call(k, action, CallArgs[action], address)
  \/ \E c \in CallIds : TimerExpire(c)
  \/ \E c \in CallIds, frame \in ReplyFrames : PeerReply(c, frame)
  \/ \E c \in CallIds : ParseReply(c)
  \/ \E action \in Transporting : TransportChange(action)

NextSchema ==
  \/ \E data \in DataValues : ResolveEntity(data)
  \/ \E name \in ServiceNames, version \in ServiceVersions \cup {Undefined},
        action \in ActionNames \cup {Undefined} :
       \/ HasCall(name, version, action)
       \/ HasDeferCall(name, version, action)
  \/ \E address \in RemoteAddresses, name \in ServiceNames \cup {Undefined},
        version \in ServiceVersions \cup {Undefined},
        action \in ActionNames \cup {Undefined} :
       HasRemoteCall(address, name, version, action)
  \/ HasCalls
  \/ HasDeferCalls
  \/ HasRemoteCalls
  \/ \E name \in ParamNames : HasParam(name) \/ GetParamSchema(name)
  \/ \E name \in FileNames : HasFile(name) \/ GetFileSchema(name)
  \/ \E name \in TagNames : HasTag(name)
  \/ \E op \in Accessors : Access(op)
  \/ TakeResult

\* The runtime caller, beside one schema that is left alone.
Init == InitCaller /\ InitSchema({<<>>})

Spec == Init /\ [][NextCaller]_vars

\* The event loop runs a timer callback whose timer has expired and a 'message'
\* listener whose frame has arrived; the peer is free never to reply.
Fairness ==
  \A c \in 1..MaxCalls :
    /\ WF_vars(c \in CallIds /\ TimerExpire(c))
    /\ WF_vars(c \in CallIds /\ ParseReply(c))

SpecFair == Init /\ [][NextCaller]_vars /\ Fairness

\* The schema lookups, with no runtime call made.
SchemaInit == InitCaller /\ InitSchema(Mappings)

SpecSchema == SchemaInit /\ [][NextSchema]_vars

----------------------------------------------------------------------------
(* Claims about ZMQRuntimeCaller, checked under Spec *)

ResponseIds == 1..Len(responses)

\* The responses handed over because of a frame on the socket of call c.
ResponsesOn(c) == {i \in ResponseIds : responses[i].socket = c}

\* Call c has had its outcome: a frame was received on its socket, or its timer
\* has expired.
Finished(c) == sockets[c].received # <<>> \/ timers[c].state = "fired"

\* A frame that decodes arrived on the socket of call c before its timer expired.
RepliedInTime(c) == \E i \in ResponsesOn(c) : responses[i].timer # "fired"

\* C1: for every call whose peer's reply frame with payload P arrives before the
\* timer expires, the calling action's _processRuntimeResponse has been invoked
\* exactly once, with the decoded P, and the call's timer is cancelled (so the
\* timeout of that call cannot fire afterwards).
C1_ReplyHandledOnceAndTimerCancelled ==
  \A c \in CallIds :
    RepliedInTime(c) =>
      /\ Cardinality(ResponsesOn(c)) = 1
      /\ \A i \in ResponsesOn(c) :
           /\ responses[i].action = calls[c].action
           /\ responses[i].value = Unpack(sockets[c].received[1])
      /\ timers[c].state = "cleared"

\* C2: reply and timeout exclude each other: no response is handed to an action
\* because of a frame that arrived after the timer of its call had expired, and
\* one call hands over at most one response.
C2_NoResponseAfterTimeout ==
  /\ \A i \in ResponseIds : responses[i].timer # "fired"
  /\ \A c \in CallIds : Cardinality(ResponsesOn(c)) <= 1

\* C3: when the timer of a call expires before any reply, the timeout failure
\* reaches the calling action through _processRuntimeResponse, marked as an error,
\* and is never an error thrown where nothing catches it.
C3_TimeoutThroughResponsePath ==
  \A c \in CallIds :
    timers[c].state = "fired" =>
      /\ \A e \in 1..Len(uncaught) : uncaught[e] # TimeoutError(c)
      /\ \E i \in ResponseIds :
           /\ responses[i].action = calls[c].action
           /\ responses[i].value \notin Payloads

\* C4: a call that has had its outcome (reply, timeout, or a frame that does not
\* decode) no longer holds its address, and no call fails to bind because of an
\* address a finished call held.
C4_EndpointReleasedAfterOutcome ==
  /\ \A c \in CallIds : Finished(c) => ~sockets[c].bound
  /\ \A c \in CallIds :
       calls[c].threw =>
         \E d \in 1..(c - 1) :
           sockets[d].bound /\ sockets[d].address = calls[c].address /\ ~Finished(d)

\* C5: a call started on an instance that still has a pending call is refused: it
\* binds no endpoint, arms no timer, sends nothing, and leaves the instance's
\* _action and _timeout as they were.
C5_OverlappingCallRefused ==
  \A c \in CallIds :
    calls[c].overlapping =>
      /\ ~sockets[c].bound
      /\ timers[c].state = "none"
      /\ sockets[c].sent = <<>>
      /\ calls[c].kept

----------------------------------------------------------------------------
(* Claims about ActionSchema, checked under SpecSchema *)

\* What the mapping declares, with the documented defaults for what it leaves out.
Declared(key) == IF key \in DOMAIN mapping THEN mapping[key].items ELSE <<>>

DeclaredObject(key) == IF key \in DOMAIN mapping THEN mapping[key] ELSE <<>>

\* A query field that was supplied equals the record's; one left out is a wildcard.
FieldAgrees(asked, declared) == asked # Undefined => asked = declared

RecordMatches(rec, name, version, action) ==
  /\ FieldAgrees(name, rec.serviceName)
  /\ FieldAgrees(version, rec.serviceVersion)
  /\ FieldAgrees(action, rec.actionName)

SomeRecordMatches(recs, name, version, action) ==
  \E i \in 1..Len(recs) : RecordMatches(recs[i], name, version, action)

\* C6: hasCall over the declared calls, and hasDeferCall over the declared deferred
\* calls, return true iff some declared record has the queried service name and
\* agrees with the query on each of version and action that the query supplies.
C6_HasCallIffDeclaredMatch ==
  /\ (result.op = "hasCall" /\ "calls" \in DOMAIN mapping) =>
       result.outcome = Return(SomeRecordMatches(Declared("calls"), result.args[1],
                                                 result.args[2], result.args[3]))
  /\ (result.op = "hasDeferCall" /\ "deferred_calls" \in DOMAIN mapping) =>
       result.outcome = Return(SomeRecordMatches(Declared("deferred_calls"),
                                                 result.args[1], result.args[2],
                                                 result.args[3]))

\* C7: hasRemoteCall returns true iff some declared remote record has exactly the
\* queried public address and agrees with the query on each of name, version and
\* action that the query supplies.
C7_HasRemoteCallIffDeclaredMatch ==
  (result.op = "hasRemoteCall" /\ "remote_calls" \in DOMAIN mapping) =>
    result.outcome =
      Return(\E i \in 1..Len(Declared("remote_calls")) :
               /\ Declared("remote_calls")[i].publicAddress = result.args[1]
               /\ RecordMatches(Declared("remote_calls")[i], result.args[2],
                                result.args[3], result.args[4]))

\* C8: getParamSchema(name) returns the declared ParamSchema named name, never
\* null, when hasParam(name) is true, and fails when name is not declared.
C8_GetParamSchemaReturnsDeclared ==
  result.op = "getParamSchema" =>
    IF hasParam(schema, result.args[1])
    THEN /\ result.outcome.kind = "return"
         /\ result.outcome.value # NullObj
         /\ \E i \in 1..Len(schema._params) :
              /\ schema._params[i]._name = result.args[1]
              /\ result.outcome.value = schema._params[i]
    ELSE result.outcome.kind = "throw"

\* The value the files mapping holds at a declared key.
DeclaredFile(name) ==
  DeclaredObject("files")[CHOOSE i \in 1..Len(DeclaredObject("files")) :
                            DeclaredObject("files")[i][1] = name][2]

IsDeclaredFile(name) == Includes(ObjectKeys(DeclaredObject("files")), name)

\* C9: on a schema built by fromMapping from a files mapping keyed by file name,
\* hasFile(name) is true iff name is one of the keys, and getFileSchema(name)
\* returns the FileSchema built for that key, or fails when name is no key.
C9_FileLookupByDeclaredKey ==
  /\ (result.op = "hasFile" /\ "files" \in DOMAIN mapping) =>
       result.outcome = Return(IsDeclaredFile(result.args[1]))
  /\ (result.op = "getFileSchema" /\ "files" \in DOMAIN mapping) =>
       IF IsDeclaredFile(result.args[1])
       THEN result.outcome =
              Return(FileSchemaFromMapping(result.args[1], DeclaredFile(result.args[1])))
       ELSE result.outcome.kind = "throw"

RECURSIVE SegmentsPresent(_, _)
\* Every segment is present at its level of the descent.
SegmentsPresent(data, segs) ==
  segs = <<>> \/ (HasKey(data, Head(segs))
                  /\ SegmentsPresent(GetKey(data, Head(segs)), Tail(segs)))

RECURSIVE ValueAt(_, _)
\* The value reached by descending one segment at a time.
ValueAt(data, segs) ==
  IF segs = <<>> THEN data ELSE ValueAt(GetKey(data, Head(segs)), Tail(segs))

ConfiguredPath == readProperty(mapping, "entity_path", <<>>)

ConfiguredSegments ==
  Split(ConfiguredPath, readProperty(mapping, "path_delimiter", <<"/">>))

\* C10: with a non-empty entity_path whose segments are all present in data,
\* resolveEntity(data) returns the value reached by splitting the path on the
\* configured delimiter and descending through data; with an empty entity_path it
\* returns data unchanged.
C10_ResolveEntityDescends ==
  result.op = "resolveEntity" =>
    IF ConfiguredPath = <<>>
    THEN result.outcome = Return(result.args[1])
    ELSE SegmentsPresent(result.args[1], ConfiguredSegments) =>
           result.outcome = Return(ValueAt(result.args[1], ConfiguredSegments))

\* C11: with a non-empty entity_path and data in which some segment of the path is
\* absent at its level of the descent, resolveEntity(data) fails with the
\* resolution error that names the action, and returns no value.
C11_ResolveEntityFailsOnAbsentSegment ==
  (/\ result.op = "resolveEntity"
   /\ ConfiguredPath # <<>>
   /\ ~SegmentsPresent(result.args[1], ConfiguredSegments)) =>
    result.outcome = Throw(<<"Cannot resolve entity for action:", SchemaName>>)

\* The mapping key each list of declared calls is read from.
CallKey(op) ==
  CASE op \in {"hasCall", "hasCalls"}             -> "calls"
    [] op \in {"hasDeferCall", "hasDeferCalls"}   -> "deferred_calls"
    [] op \in {"hasRemoteCall", "hasRemoteCalls"} -> "remote_calls"

CallQueries ==
  {"hasCall", "hasCalls", "hasDeferCall", "hasDeferCalls", "hasRemoteCall",
   "hasRemoteCalls"}

\* The field of the schema each list of declared calls is kept in.
CallField(op) ==
  CASE op \in {"hasCall", "hasCalls"}             -> schema._calls
    [] op \in {"hasDeferCall", "hasDeferCalls"}   -> schema._deferredCalls
    [] op \in {"hasRemoteCall", "hasRemoteCalls"} -> schema._remoteCalls

\* C12: a mapping that leaves out calls, deferred_calls or remote_calls gives a
\* schema whose field is the empty sequence, and on it hasCall, hasDeferCall,
\* hasRemoteCall, hasCalls, hasDeferCalls and hasRemoteCalls return false for
\* every query, none of them failing.
C12_OmittedCallsDefaultToEmpty ==
  (result.op \in CallQueries /\ CallKey(result.op) \notin DOMAIN mapping) =>
    /\ CallField(result.op) = Arr(<<>>)
    /\ result.outcome = Return(FALSE)

\* C18: no operation changes the schema: after any sequence of lookups,
\* predicates and accessors every field of the schema is what fromMapping made
\* it, and resolveEntity leaves the data it was handed as it was.
C18_SchemaNeverChanges ==
  /\ schema = fromMapping(SchemaName, mapping)
  /\ result.op = "resolveEntity" => result.args[2] = result.args[1]

\* C18: resolveEntity has run on data with keys, on a schema with an entity path.
C18_Witness ==
  /\ result.op = "resolveEntity"
  /\ "entity_path" \in DOMAIN mapping
  /\ mapping["entity_path"] # <<>>
  /\ result.args[1] # Leaf

----------------------------------------------------------------------------
(* Further claims about ZMQRuntimeCaller, checked under Spec and SpecFair *)

\* The envelope in the message of call c.
Envelope(c) == Unpack(sockets[c].sent[2])

\* C13: the message call() sends has exactly two frames, the control byte and
\* the encoded envelope; the envelope has meta.service "service", command name
\* "runtime-call", callee <<service, version, targetAction>> in that order, the
\* transport the calling action had when call() ran, and the params and files
\* passed (empty lists when left out).
C13_MessageFramesAndEnvelope ==
  \A c \in CallIds :
    sockets[c].sent # <<>> =>
      /\ Len(sockets[c].sent) = 2
      /\ sockets[c].sent[1] = ProtocolByte
      /\ CanUnpack(sockets[c].sent[2])
      /\ Envelope(c).meta.service = "service"
      /\ Envelope(c).command.name = "runtime-call"
      /\ Envelope(c).command.arguments.callee =
           <<calls[c].args.service, calls[c].args.version, calls[c].args.targetAction>>
      /\ Envelope(c).command.arguments.transport = calls[c].snapshot
      /\ Envelope(c).command.arguments.params =
           (IF calls[c].args.params = Undefined THEN EmptyList ELSE calls[c].args.params)
      /\ Envelope(c).command.arguments.files =
           (IF calls[c].args.files = Undefined THEN EmptyList ELSE calls[c].args.files)

\* C13: a message was sent with params and files left out, and the action's
\* transport has changed since; another was sent with both passed.
C13_Witness ==
  \E c, d \in CallIds :
    /\ sockets[c].sent # <<>>
    /\ calls[c].args.params = Undefined
    /\ transport[calls[c].action] # calls[c].snapshot
    /\ sockets[d].sent # <<>>
    /\ calls[d].args.params # Undefined

\* Call c has had one of its two outcomes: a decoded reply was handed to the
\* response handler, or the timeout error was raised.
Outcome(c) == ResponsesOn(c) # {} \/ timers[c].state = "fired"

\* C14: with timers and message delivery scheduled fairly, every call whose
\* message was sent eventually has the reply outcome or the timeout outcome,
\* whatever the peer does (no reply, a frame that does not decode). A process
\* that an uncaught error has ended is left aside: the calls that fail this are
\* left without outcome in a process that lives on.
C14_EveryCallReachesAnOutcome ==
  \A c \in 1..MaxCalls :
    (c \in CallIds /\ sockets[c].sent # <<>>)
      ~> (~alive \/ (c \in CallIds /\ Outcome(c)))

\* The order of the steps of one call, as the state shows it: a timer exists only
\* on a bound endpoint whose listener is registered, a message only where a timer
\* was armed, and frames are received and timers expire only on bound endpoints.
StepsInOrder(c) ==
  /\ sockets[c].bound => sockets[c].handler = calls[c].instance
  /\ timers[c].state # "none" => sockets[c].bound
  /\ sockets[c].sent # <<>> => timers[c].state # "none"
  /\ sockets[c].received # <<>> => sockets[c].bound
  /\ sockets[c].bound => Len(sockets[c].sent) = 2
  /\ ~sockets[c].bound => sockets[c].sent = <<>>

\* C15: within a call the listener is registered and the endpoint bound, then
\* the timer armed, then the message sent; nothing is received and no timeout
\* fires on an unbound endpoint; the message of a call is sent once, and no step
\* after call() (a timeout, a reply) sends again.
C15_StepsInOrderAndNoResend ==
  /\ [](\A c \in CallIds : StepsInOrder(c))
  /\ [][\A c \in CallIds : sockets'[c].sent = sockets[c].sent]_vars

\* C15: a call timed out and then received a frame, its one message sent; and a
\* call whose bind failed sent nothing.
C15_Witness ==
  \E c, d \in CallIds :
    /\ timers[c].state = "fired"
    /\ sockets[c].received # <<>>
    /\ Len(sockets[c].sent) = 2
    /\ calls[d].threw

\* C16: also when calls overlap on one instance, a reply on the endpoint of a
\* call is handed to the action that made that call and cancels that call's own
\* timer: no timer is cancelled but by a frame on its own call's endpoint, and no
\* call has both a reply delivered in time and a fired timeout.
C16_ReplyGoesToOwnCall ==
  /\ \A i \in ResponseIds : responses[i].action = calls[responses[i].socket].action
  /\ \A c \in CallIds : timers[c].state = "cleared" => sockets[c].received # <<>>
  /\ \A c \in CallIds : RepliedInTime(c) => timers[c].state # "fired"

\* The calls made on instance k.
OnInstance(k) == {c \in CallIds : calls[c].instance = k}

\* The last element of a set of call ids, or none.
LastOf(S, none) == IF S = {} THEN none ELSE CHOOSE c \in S : \A d \in S : d <= c

\* C17: calls on distinct instances do not touch each other: a response goes to
\* an action of a call made on the instance whose endpoint received the frame, a
\* timer is cancelled only by a frame received on an endpoint of its own instance,
\* and the _action and _timeout an instance stores are those of the calls made
\* on that instance alone.
C17_DistinctInstancesIndependent ==
  /\ \A i \in ResponseIds :
       \E e \in OnInstance(calls[responses[i].socket].instance) :
         calls[e].action = responses[i].action
  /\ \A d \in CallIds :
       timers[d].state = "cleared" =>
         \E c \in OnInstance(calls[d].instance) : sockets[c].received # <<>>
  /\ \A k \in Callers :
       /\ caller[k]._action =
            (IF OnInstance(k) = {} THEN Undefined
             ELSE calls[LastOf(OnInstance(k), NoTimer)].action)
       /\ caller[k]._timeout =
            LastOf({c \in OnInstance(k) : sockets[c].bound}, NoTimer)

\* C17: two calls on distinct instances at distinct addresses, by distinct
\* actions; one was answered and its timer cancelled, the other timed out.
C17_Witness ==
  \E c, d \in CallIds :
    /\ calls[c].instance # calls[d].instance
    /\ calls[c].address # calls[d].address
    /\ calls[c].action # calls[d].action
    /\ ResponsesOn(c) # {}
    /\ timers[c].state = "cleared"
    /\ timers[d].state = "fired"

====
